---- MODULE Spec2Model ----
(***************************************************************************)
(* A model of backend/achievements.py: the SAM.CLI invoker (_run_sam_cli),  *)
(* the pass-through achievement operations and the bulk importer            *)
(* (import_achievements).                                                   *)
(*                                                                          *)
(* Python values are modelled as follows.                                   *)
(*   - a dict is a TLA+ record; a missing key is a missing field;           *)
(*   - an achievement id is a sequence of characters, so that str.strip()   *)
(*     is a real computation;                                               *)
(*   - the tool's stdout is a sequence of lexical units: "{" and "}", the   *)
(*     JSON members "S" ("success": true), "F" ("success": false) and "E"   *)
(*     ("error": "..."), "n" (whitespace / newline), "x" (any other ASCII   *)
(*     text) and, in the byte stream, "B" (a byte that is not valid UTF-8); *)
(*   - a call either returns a value or raises: [raised, value, exc].       *)
(***************************************************************************)
EXTENDS Integers, Sequences, FiniteSets, TLC

VARIABLES
    pc,            \* "idle": no call made yet, "loop": import_achievements is in its for loop, "done": the call has ended
    op,            \* the public operation that was called
    fs,            \* the environment of the process: plugin dir lookup, SAM.CLI.exe on disk, debug log writable, sys.platform
    stubbed,       \* TRUE when import_achievements runs against a replaced unlock_achievement (any result, or an exception)
    proc,          \* the child process behaviour met by the last direct Invoker call
    ret,           \* how the call ended: [raised, value, exc]
    popen,         \* the argument lists subprocess.Popen was called with during the call
    appid,         \* import_achievements: appid after int(appid), 0 when int(appid) raised
    achievements_list,  \* import_achievements: the caller's list
    achievement_ids,    \* import_achievements: the identifiers extracted from the list
    i,             \* import_achievements: index of the next identifier of the for loop
    imported_count,
    failed_count,
    failed_list,
    calls,         \* the unlock_achievement calls made by the import so far: <<[id, b]>>, b the behaviour met
    sleeps         \* number of time.sleep(1) calls made by the import

vars == <<pc, op, fs, stubbed, proc, ret, popen, appid, achievements_list,
          achievement_ids, i, imported_count, failed_count, failed_list, calls, sleeps>>

(***************************************************************************)
(* Bounds of the model.                                                     *)
(***************************************************************************)
\* longest tool output (in lexical units) a direct Invoker call is run against
MaxOut == 3
\* longest backup list built from every kind of element
MaxLen == 2
\* length of the one long backup list (more than 10 identifiers)
MaxLong == 11

(***************************************************************************)
(* Generic helpers.                                                         *)
(***************************************************************************)
SeqsUpTo(S, n) == UNION {[1..k -> S] : k \in 0..n}

Get(d, k, dflt) == IF k \in DOMAIN d THEN d[k] ELSE dflt

Min(a, b) == IF a <= b THEN a ELSE b

Return(v) == [raised |-> FALSE, value |-> v, exc |-> ""]

\* the value of a call that raised
NoValue == [no_value |-> TRUE]

Raise(e) == [raised |-> TRUE, value |-> NoValue, exc |-> e]

(***************************************************************************)
(* str.strip(), str.find, str.rfind and slicing, on sequences.              *)
(***************************************************************************)
IsSpace(c) == c \in {" ", "n"}

RECURSIVE LStrip(_)
LStrip(s) == IF s # <<>> /\ IsSpace(Head(s)) THEN LStrip(Tail(s)) ELSE s

RECURSIVE RStrip(_)
RStrip(s) == IF s # <<>> /\ IsSpace(s[Len(s)]) THEN RStrip(SubSeq(s, 1, Len(s) - 1)) ELSE s

Strip(s) == RStrip(LStrip(s))

\* 0-based index of the first c in s, or -1
Find(s, c) ==
    IF \E k \in 1..Len(s) : s[k] = c
    THEN (CHOOSE k \in 1..Len(s) : s[k] = c /\ \A j \in 1..(k - 1) : s[j] # c) - 1
    ELSE -1

\* 0-based index of the last c in s, or -1
RFind(s, c) ==
    IF \E k \in 1..Len(s) : s[k] = c
    THEN (CHOOSE k \in 1..Len(s) : s[k] = c /\ \A j \in (k + 1)..Len(s) : s[j] # c) - 1
    ELSE -1

\* s[a:b] for 0 <= a, 0 <= b
Slice(s, a, b) == SubSeq(s, a + 1, Min(b, Len(s)))

(***************************************************************************)
(* bytes.decode                                                             *)
(***************************************************************************)
ByteUnits == {"{", "}", "S", "F", "E", "n", "x", "B"}

\* bytes.decode('utf-8'): raises UnicodeDecodeError on an invalid byte
Utf8Decodable(bytes) == \A k \in 1..Len(bytes) : bytes[k] # "B"

\* bytes.decode('utf-8', errors='replace'): U+FFFD ("?") for an invalid byte
DecodeReplace(bytes) == [k \in 1..Len(bytes) |-> IF bytes[k] = "B" THEN "?" ELSE bytes[k]]

\* bytes.decode('cp850'): every byte is a character of the code page ("u": a non-ASCII letter)
DecodeCp850(bytes) == [k \in 1..Len(bytes) |-> IF bytes[k] = "B" THEN "u" ELSE bytes[k]]

\* lines 72-85 of _run_sam_cli
DecodeStdout(bytes, win32) ==
    IF win32
    THEN DecodeCp850(bytes)
    ELSE IF Utf8Decodable(bytes) THEN bytes ELSE DecodeReplace(bytes)

(***************************************************************************)
(* json.loads, for a flat object of the members S, F, E.                    *)
(***************************************************************************)
MemberUnits == {"S", "F", "E"}

ToolErrorText == "tool error"

\* json.loads raises JSONDecodeError unless the text is one object
JsonLoads_ok(t) ==
    /\ Len(t) >= 2
    /\ t[1] = "{"
    /\ t[Len(t)] = "}"
    /\ \A k \in 2..(Len(t) - 1) : t[k] \in MemberUnits \cup {"n"}

\* the dict {} (a record needs a field: this one stands for "no key")
EmptyDict == [empty_dict |-> TRUE]

\* json.loads of one object: of two members of the same key the later one stays
JsonLoads(t) ==
    LET body == SubSeq(t, 2, Len(t) - 1)
        flags == {k \in 1..Len(body) : body[k] \in {"S", "F"}}
        last == CHOOSE k \in flags : \A j \in flags : j <= k
        hasError == \E k \in 1..Len(body) : body[k] = "E"
    IN  IF flags # {} /\ hasError THEN [success |-> body[last] = "S", error |-> ToolErrorText]
        ELSE IF flags # {} THEN [success |-> body[last] = "S"]
        ELSE IF hasError THEN [error |-> ToolErrorText]
        ELSE EmptyDict

(***************************************************************************)
(* Logging.                                                                 *)
(***************************************************************************)
\* _write_debug_log with its try removed: the failed write reaches the caller
WriteDebugLogUnguarded(logOk) == [raised |-> ~logOk]

\* _write_debug_log: open(..., "a") and write inside try / except Exception: pass
_write_debug_log(logOk) ==
    LET write == [raised |-> ~logOk]         \* open() or f.write() fails
    IN  IF write.raised
        THEN [raised |-> FALSE]              \* except Exception: pass
        ELSE write

\* logger.log / logger.warn: the plugin's logging subsystem, a write-append sink
\* whose write failures are swallowed
LoggerWrite(logOk) == [raised |-> FALSE]

\* a logger call followed by a _write_debug_log call: does either raise
LogWritesRaise(logOk) == LoggerWrite(logOk).raised \/ _write_debug_log(logOk).raised

(***************************************************************************)
(* _run_sam_cli                                                             *)
(***************************************************************************)
SamCliPath == "vendor/SAM/SAM.CLI.exe"

NotFoundResult == [success |-> FALSE, error |-> "SAM.CLI tool not found. Please reinstall LuaTools."]

InvalidOutputResult == [success |-> FALSE, error |-> "Invalid output from SAM CLI"]

ParseFailedResult == [success |-> FALSE, error |-> "Failed to parse SAM CLI output"]

NoOutputResult == [success |-> FALSE, error |-> "No output from SAM CLI"]

\* what the child process does: Popen fails, communicate fails, or it runs and
\* writes `out` to stdout and (err) something to stderr
ProcessBehaviours(n) ==
    {[kind |-> "popen_error"], [kind |-> "communicate_error"]}
    \cup {[kind |-> "ran", out |-> o, err |-> e] : o \in SeqsUpTo(ByteUnits, n), e \in BOOLEAN}

NoProcess == [kind |-> "none"]

\* lines 92-114: the result read from the decoded stdout; "raise" when a
\* statement of the block raises something that is not a JSONDecodeError
ReadOutput(stdout, logOk) ==
    IF stdout # <<>>
    THEN LET full_output == Strip(stdout)
             json_start == Find(full_output, "{")
             json_end == RFind(full_output, "}")
             json_str == Slice(full_output, json_start, json_end + 1)
         IN  IF json_start # -1 /\ json_end # -1
             THEN IF JsonLoads_ok(json_str)
                  THEN Return(JsonLoads(json_str))
                  ELSE IF _write_debug_log(logOk).raised
                       THEN Raise("debug log write failed")
                       ELSE Return(ParseFailedResult)
             ELSE IF _write_debug_log(logOk).raised
                  THEN Raise("debug log write failed")
                  ELSE Return(InvalidOutputResult)
    ELSE Return(NoOutputResult)

\* lines 41-114: the body of the try; popen is the list of Popen calls made
RunSamCliBody(command, app, args, env, p) ==
    LET cmd_args == <<SamCliPath, command, app>> \o args
        out(r, calls_) == [raised |-> r.raised, value |-> r.value, exc |-> r.exc, popen |-> calls_]
    IN  IF ~env.pluginDirOk
        THEN out(Raise("get_plugin_dir failed"), <<>>)
        ELSE IF ~env.toolExists
        THEN IF LogWritesRaise(env.logOk)
             THEN out(Raise("debug log write failed"), <<>>)
             ELSE out(Return(NotFoundResult), <<>>)
        ELSE IF LogWritesRaise(env.logOk)
        THEN out(Raise("debug log write failed"), <<>>)
        ELSE IF p.kind = "popen_error"
        THEN out(Raise("Popen failed"), <<cmd_args>>)
        ELSE IF p.kind = "communicate_error"
        THEN out(Raise("communicate failed"), <<cmd_args>>)
        ELSE LET stdout == DecodeStdout(p.out, env.win32)
             IN  IF p.err /\ _write_debug_log(env.logOk).raised
                 THEN out(Raise("debug log write failed"), <<cmd_args>>)
                 ELSE out(ReadOutput(stdout, env.logOk), <<cmd_args>>)

\* _run_sam_cli spawning the tool before it looks for it
RunSamCliNoExistsCheck(command, app, args, env, p) ==
    LET r == RunSamCliBody(command, app, args, [env EXCEPT !.toolExists = TRUE], p)
    IN  IF r.raised THEN [raised |-> FALSE, value |-> [success |-> FALSE, error |-> r.exc], exc |-> "", popen |-> r.popen]
        ELSE r

\* lines 29-122
_run_sam_cli(command, app, args, env, p) ==
    LET r == RunSamCliBody(command, app, args, env, p)
    IN  IF ~r.raised THEN r
        ELSE \* except Exception as e: logger.warn, _write_debug_log twice, return
             IF LogWritesRaise(env.logOk)
             THEN [raised |-> TRUE, value |-> NoValue, exc |-> "debug log write failed", popen |-> r.popen]
             ELSE [raised |-> FALSE, value |-> [success |-> FALSE, error |-> r.exc], exc |-> "", popen |-> r.popen]

\* lines 125-151: the pass-through operations
get_player_achievements(app, env, p) == _run_sam_cli("get-achievements", app, <<>>, env, p)

unlock_achievement(app, achievement_id, env, p) == _run_sam_cli("unlock", app, <<achievement_id>>, env, p)

lock_achievement(app, achievement_id, env, p) == _run_sam_cli("lock", app, <<achievement_id>>, env, p)

get_all_achievements_for_app(app, env, p) == _run_sam_cli("get-achievements", app, <<>>, env, p)

(***************************************************************************)
(* import_achievements: the caller's inputs.                                *)
(***************************************************************************)
Str(s) == [str |-> s]

Dict(d) == [dict |-> d]

IsStr(e) == "str" \in DOMAIN e

IsDict(e) == "dict" \in DOMAIN e

IdStrings == {<<"a">>, <<" ", "b", " ">>, <<" ">>, <<>>}

DictValues ==
    {[id |-> s, unlocked |-> u] : s \in IdStrings, u \in BOOLEAN}
    \cup {[id |-> s] : s \in IdStrings}
    \cup {[unlocked |-> u] : u \in BOOLEAN}
    \cup {EmptyDict}

Elements == {Str(s) : s \in IdStrings} \cup {Dict(d) : d \in DictValues} \cup {[int |-> 7]}

\* the backup of MaxLong identifiers, "a" and "b" in turn
LongBackup == [t |-> "list", v |-> [k \in 1..MaxLong |-> Str(IF k % 2 = 1 THEN <<"a">> ELSE <<"b">>)]]

ListInputs(stub) ==
    {[t |-> "list", v |-> l] : l \in SeqsUpTo(Elements, MaxLen)}
    \cup {[t |-> "none", v |-> <<>>]}
    \cup (IF stub THEN {LongBackup} ELSE {})

AppIdInputs == {[t |-> "int", n |-> 480], [t |-> "str", v |-> "480"], [t |-> "str", v |-> "abc"]}

\* int(appid)
IntOf(a) ==
    IF a.t = "int" THEN Return(a.n)
    ELSE IF a.v = "480" THEN Return(480)
    ELSE Raise("invalid literal for int()")

\* truth value of a Python value that is a bool or None
Truthy(x) == x = TRUE

(***************************************************************************)
(* import_achievements, lines 161-181: validation and extraction.           *)
(***************************************************************************)
\* line 169 keeping every record, whatever its unlocked field
UnlockedToImportAll(l) == l

\* line 169: [ach for ach in achievements_list if ach.get("unlocked", False)]
UnlockedToImport(l) == SelectSeq(l, LAMBDA ach : Truthy(Get(ach.dict, "unlocked", FALSE)))

\* line 170 / 173 testing the string, not the stripped string, for emptiness
StrippedKeepsBlank(l) ==
    LET kept == SelectSeq(l, LAMBDA s : s # <<>>)
    IN  [k \in 1..Len(kept) |-> Strip(kept[k])]

\* line 170 / 173: the stripped strings of l that are not empty
StrippedNonEmpty(l) ==
    LET kept == SelectSeq(l, LAMBDA s : Strip(s) # <<>>)
    IN  [k \in 1..Len(kept) |-> Strip(kept[k])]

\* lines 165-181: Return(ids), Return of an error result, or Raise
ExtractIds(al) ==
    IF al.t # "list"
    THEN [kind |-> "error", r |-> Return([success |-> FALSE, error |-> "Achievements list must be an array"])]
    ELSE LET l == al.v
         IN  IF Len(l) > 0
             THEN LET first_item == l[1]
                  IN  IF IsDict(first_item)
                      THEN IF \E k \in 1..Len(l) : ~IsDict(l[k])
                           THEN [kind |-> "error", r |-> Raise("object has no attribute 'get'")]
                           ELSE LET unlocked_to_import == UnlockedToImport(l)
                                    idvalues == [k \in 1..Len(unlocked_to_import) |-> Get(unlocked_to_import[k].dict, "id", <<>>)]
                                    achievement_ids_ == StrippedNonEmpty(idvalues)
                                IN  IF achievement_ids_ = <<>>
                                    THEN [kind |-> "error", r |-> Return([success |-> FALSE, error |-> "No unlocked achievements found in backup"])]
                                    ELSE [kind |-> "ids", ids |-> achievement_ids_]
                      ELSE IF IsStr(first_item)
                      THEN IF \E k \in 1..Len(l) : ~IsStr(l[k])
                           THEN [kind |-> "error", r |-> Raise("object has no attribute 'strip'")]
                           ELSE LET achievement_ids_ == StrippedNonEmpty([k \in 1..Len(l) |-> l[k].str])
                                IN  IF achievement_ids_ = <<>>
                                    THEN [kind |-> "error", r |-> Return([success |-> FALSE, error |-> "No unlocked achievements found in backup"])]
                                    ELSE [kind |-> "ids", ids |-> achievement_ids_]
                      ELSE [kind |-> "error", r |-> Return([success |-> FALSE, error |-> "Invalid achievement list format"])]
             ELSE [kind |-> "error", r |-> Return([success |-> FALSE, error |-> "Achievements list is empty"])]

\* import_achievements without its outer try
ImportHandlerMissing(e, env) == Raise(e)

\* lines 233-239: the handler of import_achievements' outer try
ImportHandler(e, env) ==
    IF LogWritesRaise(env.logOk)
    THEN Raise("debug log write failed")
    ELSE Return([success |-> FALSE, error |-> e])

\* lines 159-183: int(appid), the validation, the extraction and the first
\* logger.log; ends when the call returns before its loop
ImportValidate(a, al, env) ==
    LET c == IntOf(a)
        x == ExtractIds(al)
        ends == c.raised \/ x.kind = "error" \/ LoggerWrite(env.logOk).raised
    IN  [ends |-> ends,
         appid |-> IF c.raised THEN 0 ELSE c.value,
         ids |-> IF ends THEN <<>> ELSE x.ids,
         ret |-> IF c.raised THEN ImportHandler(c.exc, env)
                 ELSE IF x.kind = "error"
                 THEN (IF x.r.raised THEN ImportHandler(x.r.exc, env) ELSE x.r)
                 ELSE IF LoggerWrite(env.logOk).raised
                 THEN ImportHandler("logger write failed", env)
                 ELSE [raised |-> FALSE, value |-> NoValue, exc |-> "no call"]]

(***************************************************************************)
(* import_achievements, lines 185-231: the loop and the summary.            *)
(***************************************************************************)
\* what one unlock_achievement call of the loop meets: a child process, or
\* (stubbed) a replaced unlock_achievement that returns `out`
StubOutcomes ==
    {Return([success |-> TRUE]),
     Return([success |-> FALSE, error |-> "refused"]),
     Raise("boom")}

\* the result, or exception, of the call at line 194
UnlockOutcome(b, app, ach_id, env) ==
    IF b.kind = "stub"
    THEN [raised |-> b.out.raised, value |-> b.out.value, exc |-> b.out.exc, popen |-> <<>>]
    ELSE unlock_achievement(app, ach_id, env, b.p)

\* line 202 and line 207: the failure-detail strings
FailedDetail(ach_id, error_msg) == <<ach_id, ": ", error_msg>>

ExceptionDetail(ach_id, exc) == <<ach_id, ": Exception - ", exc>>

\* the except branch aborting the import instead of counting the failure
ItemExceptAborts(st, ach_id, exc, env) == [escaped |-> TRUE, st |-> st, exc |-> exc]

\* lines 205-209: the except branch of the loop body
ItemExcept(st, ach_id, exc, env) ==
    LET st1 == [st EXCEPT !.failed = @ + 1,
                          !.failed_list = Append(@, ExceptionDetail(ach_id, exc))]
    IN  IF LogWritesRaise(env.logOk)
        THEN [escaped |-> TRUE, st |-> st1, exc |-> "debug log write failed"]
        ELSE [escaped |-> FALSE, st |-> st1, exc |-> ""]

\* the loop body without line 200: a reported failure is listed, not counted
ImportItemFailureUncounted(st, ach_id, u, env) ==
    IF u.raised
    THEN ItemExcept(st, ach_id, u.exc, env)
    ELSE IF Truthy(Get(u.value, "success", FALSE))
    THEN [escaped |-> FALSE, st |-> [st EXCEPT !.imported = @ + 1], exc |-> ""]
    ELSE [escaped |-> FALSE,
          st |-> [st EXCEPT !.failed_list =
                      Append(@, FailedDetail(ach_id, Get(u.value, "error", "Unknown error")))],
          exc |-> ""]

\* lines 193-209: one identifier, st the counters [imported, failed, failed_list]
ImportItem(st, ach_id, u, env) ==
    IF u.raised
    THEN ItemExcept(st, ach_id, u.exc, env)
    ELSE IF Truthy(Get(u.value, "success", FALSE))
    THEN LET st1 == [st EXCEPT !.imported = @ + 1]
         IN  IF LogWritesRaise(env.logOk)
             THEN ItemExcept(st1, ach_id, "debug log write failed", env)
             ELSE [escaped |-> FALSE, st |-> st1, exc |-> ""]
    ELSE LET error_msg == Get(u.value, "error", "Unknown error")
             st1 == [st EXCEPT !.failed = @ + 1,
                               !.failed_list = Append(@, FailedDetail(ach_id, error_msg))]
         IN  IF LogWritesRaise(env.logOk)
             THEN ItemExcept(st1, ach_id, "debug log write failed", env)
             ELSE [escaped |-> FALSE, st |-> st1, exc |-> ""]

\* line 228: the number of failure details a summary keeps
MaxFailedDetails == 10

\* line 228 keeping the last ten failures
LastTen(fl) == SubSeq(fl, Len(fl) - Min(Len(fl), MaxFailedDetails) + 1, Len(fl))

\* line 228: failed_list[:10]
FirstTen(fl) == SubSeq(fl, 1, Min(Len(fl), MaxFailedDetails))

\* line 220
SummarySuccess(imported, failed) == imported > 0

\* lines 215-228
Summary(imported, failed, fl, ids) ==
    LET result_msg == IF failed > 0 THEN <<"Imported", imported, "failed", failed>>
                                    ELSE <<"Imported", imported>>
        response == [success |-> SummarySuccess(imported, failed),
                     imported |-> imported,
                     failed |-> failed,
                     total_attempted |-> Len(ids),
                     message |-> result_msg]
    IN  IF fl # <<>> THEN response @@ [failed_details |-> FirstTen(fl)] ELSE response

(***************************************************************************)
(* The environment.                                                         *)
(***************************************************************************)
FsStates == [pluginDirOk : BOOLEAN, toolExists : BOOLEAN, logOk : BOOLEAN, win32 : BOOLEAN]

AppIds == {480}

DirectIds == {<<"a">>}

\* Two child process behaviours are of one class when _run_sam_cli returns
\* the same for both in every environment.  The import's loop meets one
\* behaviour of each class.
ProcSignature(p) == [e \in FsStates |-> unlock_achievement(480, <<"a">>, e, p)]

ProcReps ==
    LET all == ProcessBehaviours(MaxOut)
        classes == {ProcSignature(p) : p \in all}
    IN  {CHOOSE p \in all : ProcSignature(p) = sg : sg \in classes}

UnlockBehaviours(stub) ==
    IF stub
    THEN {[kind |-> "stub", out |-> o] : o \in StubOutcomes}
    ELSE {[kind |-> "proc", p |-> p] : p \in ProcReps}

NoReturn == [raised |-> FALSE, value |-> NoValue, exc |-> "no call"]

(***************************************************************************)
(* The state machine: one public call per behaviour.                        *)
(***************************************************************************)
InitCommon ==
    /\ pc = "idle"
    /\ op = "none"
    /\ proc = NoProcess
    /\ ret = NoReturn
    /\ popen = <<>>
    /\ appid = 0
    /\ achievements_list = [t |-> "none", v |-> <<>>]
    /\ achievement_ids = <<>>
    /\ i = 0
    /\ imported_count = 0
    /\ failed_count = 0
    /\ failed_list = <<>>
    /\ calls = <<>>
    /\ sleeps = 0

\* the program as it is composed
Init ==
    /\ InitCommon
    /\ stubbed = FALSE
    /\ fs \in FsStates

\* the importer against any unlock_achievement
InitImporter ==
    /\ InitCommon
    /\ stubbed = TRUE
    /\ fs = [pluginDirOk |-> TRUE, toolExists |-> TRUE, logOk |-> TRUE, win32 |-> FALSE]

importVars == <<appid, achievements_list, achievement_ids, i, imported_count,
                failed_count, failed_list, calls, sleeps>>

\* a direct call of one of the pass-through operations, r its outcome
DirectCall(name, r, p) ==
    /\ pc' = "done"
    /\ op' = name
    /\ proc' = IF r.popen # <<>> THEN p ELSE NoProcess
    /\ ret' = [raised |-> r.raised, value |-> r.value, exc |-> r.exc]
    /\ popen' = r.popen
    /\ UNCHANGED <<fs, stubbed, importVars>>

GetPlayerAchievements ==
    /\ pc = "idle"
    /\ \E a \in AppIds, p \in ProcessBehaviours(MaxOut) :
          DirectCall("get_player_achievements", get_player_achievements(a, fs, p), p)

UnlockAchievement ==
    /\ pc = "idle"
    /\ \E a \in AppIds, id \in DirectIds, p \in ProcessBehaviours(MaxOut) :
          DirectCall("unlock_achievement", unlock_achievement(a, id, fs, p), p)

LockAchievement ==
    /\ pc = "idle"
    /\ \E a \in AppIds, id \in DirectIds, p \in ProcessBehaviours(MaxOut) :
          DirectCall("lock_achievement", lock_achievement(a, id, fs, p), p)

GetAllAchievementsForApp ==
    /\ pc = "idle"
    /\ \E a \in AppIds, p \in ProcessBehaviours(MaxOut) :
          DirectCall("get_all_achievements_for_app", get_all_achievements_for_app(a, fs, p), p)

\* import_achievements up to its for loop (lines 159-190)
ImportBegin ==
    /\ pc = "idle"
    /\ \E a \in AppIdInputs, al \in ListInputs(stubbed) :
          LET v == ImportValidate(a, al, fs)
          IN  /\ op' = "import_achievements"
              /\ achievements_list' = al
              /\ appid' = v.appid
              /\ pc' = IF v.ends THEN "done" ELSE "loop"
              /\ ret' = v.ret
              /\ achievement_ids' = v.ids
              /\ i' = IF v.ends THEN 0 ELSE 1
              /\ UNCHANGED <<fs, stubbed, proc, popen, imported_count, failed_count,
                             failed_list, calls, sleeps>>

\* one iteration of the for loop (lines 191-213)
ImportStep ==
    /\ pc = "loop"
    /\ i <= Len(achievement_ids)
    /\ \E b \in UnlockBehaviours(stubbed) :
          LET ach_id == achievement_ids[i]
              u == UnlockOutcome(b, appid, ach_id, fs)
              st == [imported |-> imported_count, failed |-> failed_count, failed_list |-> failed_list]
              item == IF LoggerWrite(fs.logOk).raised
                      THEN [escaped |-> TRUE, st |-> st, exc |-> "logger write failed"]
                      ELSE ImportItem(st, ach_id, u, fs)
          IN  /\ calls' = IF LoggerWrite(fs.logOk).raised THEN calls ELSE Append(calls, [id |-> ach_id, b |-> b])
              /\ popen' = IF LoggerWrite(fs.logOk).raised THEN popen ELSE popen \o u.popen
              /\ imported_count' = item.st.imported
              /\ failed_count' = item.st.failed
              /\ failed_list' = item.st.failed_list
              /\ pc' = IF item.escaped THEN "done" ELSE "loop"
              /\ ret' = IF item.escaped THEN ImportHandler(item.exc, fs) ELSE ret
              /\ i' = IF item.escaped THEN i ELSE i + 1
              /\ sleeps' = IF ~item.escaped /\ i < Len(achievement_ids) THEN sleeps + 1 ELSE sleeps
              /\ UNCHANGED <<op, fs, stubbed, proc, appid, achievements_list, achievement_ids>>

\* the summary (lines 215-231)
ImportFinish ==
    /\ pc = "loop"
    /\ i > Len(achievement_ids)
    /\ pc' = "done"
    /\ ret' = IF LoggerWrite(fs.logOk).raised
              THEN ImportHandler("logger write failed", fs)
              ELSE Return(Summary(imported_count, failed_count, failed_list, achievement_ids))
    /\ UNCHANGED <<op, fs, stubbed, proc, popen, importVars>>

Next ==
    \/ GetPlayerAchievements
    \/ UnlockAchievement
    \/ LockAchievement
    \/ GetAllAchievementsForApp
    \/ ImportBegin
    \/ ImportStep
    \/ ImportFinish

Spec == Init /\ [][Next]_vars

SpecImporter == InitImporter /\ [][Next]_vars

(***************************************************************************)
(* What the properties below speak of.                                      *)
(***************************************************************************)
ImportCalled == op = "import_achievements"

ImportDone == ImportCalled /\ pc = "done"

\* the identifiers unlock_achievement was called with, in call order
CallIds == [k \in 1..Len(calls) |-> calls[k].id]

\* the outcome of the k-th unlock_achievement call
CallOutcome(k) == UnlockOutcome(calls[k].b, appid, calls[k].id, fs)

CallRaised(k) == CallOutcome(k).raised

CallSucceeded(k) == ~CallOutcome(k).raised /\ Get(CallOutcome(k).value, "success", FALSE) = TRUE

CallFailed(k) == ~CallRaised(k) /\ ~CallSucceeded(k)

IsArray(al) == al.t = "list"

AllOfFirstKind(l) ==
    \/ \A k \in 1..Len(l) : IsDict(l[k])
    \/ \A k \in 1..Len(l) : IsStr(l[k])

\* the identifiers of a backup list, as the specification words them: by the
\* first element's kind, the trimmed non-empty ids of the records whose
\* unlocked field is true, or the trimmed non-empty strings
BackupIds(l) ==
    LET recs == SelectSeq(l, LAMBDA e : IsDict(e) /\ "unlocked" \in DOMAIN e.dict /\ e.dict.unlocked = TRUE
                                        /\ "id" \in DOMAIN e.dict /\ Strip(e.dict.id) # <<>>)
        strs == SelectSeq(l, LAMBDA e : IsStr(e) /\ Strip(e.str) # <<>>)
    IN  IF l = <<>> THEN <<>>
        ELSE IF IsDict(l[1]) THEN [k \in 1..Len(recs) |-> Strip(recs[k].dict.id)]
        ELSE IF IsStr(l[1]) THEN [k \in 1..Len(strs) |-> Strip(strs[k].str)]
        ELSE <<>>

IsSummary(v) == {"imported", "failed", "total_attempted", "message"} \subseteq DOMAIN v

(***************************************************************************)
(* C1: an import that has extracted the identifiers i1..iN calls            *)
(* unlock_achievement exactly N times, the k-th call for ik, whatever the   *)
(* earlier calls returned or raised, and returns its summary only after the *)
(* N-th call.                                                               *)
(***************************************************************************)
C1_CallsInOrder ==
    ImportCalled =>
        /\ Len(calls) <= Len(achievement_ids)
        /\ \A k \in 1..Len(calls) : calls[k].id = achievement_ids[k]
        /\ pc = "loop" => Len(calls) = i - 1 /\ ret = NoReturn
        /\ (pc = "done" /\ achievement_ids # <<>>) =>
              /\ Len(calls) = Len(achievement_ids)
              /\ ~ret.raised
              /\ IsSummary(ret.value)

\* a finished import of a duplicated identifier whose first call raised, whose
\* second call reported failure and whose summary counts both
C1_Witness ==
    /\ ImportDone
    /\ Len(calls) = 2
    /\ calls[1].id = calls[2].id
    /\ CallRaised(1)
    /\ CallFailed(2)
    /\ IsSummary(ret.value)

(***************************************************************************)
(* C2 as stated: whatever follows the first element, the identifiers a      *)
(* finished import has attempted are, for a first element that is a record, *)
(* the trimmed non-empty ids of the elements whose unlocked field is true   *)
(* and, for a first element that is a string, the trimmed non-empty         *)
(* entries, in list order.                                                  *)
(***************************************************************************)
C2_AsStated ==
    (ImportDone /\ appid # 0 /\ IsArray(achievements_list)) =>
        CallIds = BackupIds(achievements_list.v)

(***************************************************************************)
(* C2, amended: the above holds of a list whose elements are all of the     *)
(* first element's kind; of a list that mixes records and strings no        *)
(* identifier is attempted.  At any moment the identifiers attempted so far *)
(* are the first ones of that list, in order.                               *)
(***************************************************************************)
C2_IdsByFirstElement ==
    (ImportCalled /\ appid # 0 /\ IsArray(achievements_list)) =>
        LET l == achievements_list.v
            ids == IF AllOfFirstKind(l) THEN BackupIds(l) ELSE <<>>
        IN  /\ achievement_ids = ids
            /\ Len(CallIds) <= Len(ids)
            /\ CallIds = SubSeq(ids, 1, Len(CallIds))
            /\ pc = "done" => CallIds = ids

\* a finished import of two records, the first one unlocked with an id to
\* trim, the second one not unlocked: only the first one's id was attempted
C2_Witness ==
    /\ ImportDone
    /\ IsArray(achievements_list)
    /\ Len(achievements_list.v) = 2
    /\ achievements_list.v[1] = Dict([id |-> <<" ", "b", " ">>, unlocked |-> TRUE])
    /\ achievements_list.v[2] = Dict([id |-> <<"a">>, unlocked |-> FALSE])
    /\ CallIds = << <<"b">> >>

(***************************************************************************)
(* C3: no public operation lets an exception reach its caller: every call   *)
(* ends by returning a result record.                                       *)
(***************************************************************************)
C3_NothingEscapes ==
    pc = "done" => ~ret.raised /\ ret.value # NoValue

\* an import of a list that mixes a record and a string has returned a result
C3_Witness ==
    /\ ImportDone
    /\ IsArray(achievements_list)
    /\ Len(achievements_list.v) = 2
    /\ IsDict(achievements_list.v[1])
    /\ IsStr(achievements_list.v[2])
    /\ ~ret.raised
    /\ ret.value.success = FALSE

(***************************************************************************)
(* C7: an import that ends in an input-validation error (the list is not an *)
(* array, is empty, starts with neither a record nor a string, or holds no  *)
(* identifier after filtering) returns success = false and has invoked the  *)
(* tool zero times.                                                         *)
(***************************************************************************)
ValidationFails(al) ==
    \/ ~IsArray(al)
    \/ al.v = <<>>
    \/ ~IsDict(al.v[1]) /\ ~IsStr(al.v[1])
    \/ AllOfFirstKind(al.v) /\ BackupIds(al.v) = <<>>

C7_ValidationErrorNoInvocation ==
    (ImportCalled /\ ValidationFails(achievements_list)) =>
        /\ pc = "done"
        /\ ~ret.raised
        /\ ret.value.success = FALSE
        /\ "error" \in DOMAIN ret.value
        /\ calls = <<>>
        /\ popen = <<>>

\* an import of two records that are not unlocked has returned the "no
\* unlocked achievements" error
C7_Witness ==
    /\ ImportDone
    /\ appid # 0
    /\ IsArray(achievements_list)
    /\ Len(achievements_list.v) = 2
    /\ \A k \in 1..2 : IsDict(achievements_list.v[k]) /\ "id" \in DOMAIN achievements_list.v[k].dict
    /\ ret.value = [success |-> FALSE, error |-> "No unlocked achievements found in backup"]
    /\ calls = <<>>

(***************************************************************************)
(* C4 as stated: every result returned carries a success flag and, when the *)
(* flag is false, an error string.                                          *)
(***************************************************************************)
C4_AsStated ==
    (pc = "done" /\ ~ret.raised) =>
        /\ "success" \in DOMAIN ret.value
        /\ ret.value.success = FALSE => "error" \in DOMAIN ret.value

(***************************************************************************)
(* C5 as stated: with SAM.CLI.exe missing at its path, every operation,     *)
(* import included, returns success = false with the fixed "tool not found" *)
(* message, and Popen is never called.                                      *)
(***************************************************************************)
ToolMissing == fs.pluginDirOk /\ ~fs.toolExists

C5_AsStated ==
    (pc = "done" /\ ToolMissing) =>
        /\ ~ret.raised
        /\ ret.value = NotFoundResult
        /\ popen = <<>>

(***************************************************************************)
(* C5, amended: with SAM.CLI.exe missing at its path, Popen is never        *)
(* called; fetch-all, unlock-one and lock-one return success = false with   *)
(* the fixed "tool not found" message; import returns success = false,      *)
(* either an input-validation error or a summary with imported = 0 and      *)
(* failed = N in which every failure detail is "<id>: " followed by the     *)
(* fixed message.                                                           *)
(***************************************************************************)
C5_ToolMissing ==
    ToolMissing =>
        /\ popen = <<>>
        /\ pc = "done" =>
              /\ ~ret.raised
              /\ ret.value.success = FALSE
              /\ ~ImportCalled => ret.value = NotFoundResult
              /\ (ImportCalled /\ achievement_ids = <<>>) =>
                    "error" \in DOMAIN ret.value /\ ret.value.error # NotFoundResult.error
              /\ (ImportCalled /\ achievement_ids # <<>>) =>
                    /\ IsSummary(ret.value)
                    /\ ret.value.imported = 0
                    /\ ret.value.failed = Len(achievement_ids)
                    /\ ret.value.failed_details =
                          [k \in 1..Len(achievement_ids) |-> <<achievement_ids[k], ": ", NotFoundResult.error>>]

\* an import of two identifiers has ended with the tool missing
C5_Witness ==
    /\ ImportDone
    /\ ToolMissing
    /\ Len(achievement_ids) = 2
    /\ ret.value.failed = 2
    /\ popen = <<>>

(***************************************************************************)
(* C6 as stated: when the tool's output is one well-formed JSON object      *)
(* with any text before and after it, the text from the first "{" to the    *)
(* last "}" parses and the parsed object is what the Invoker returns.       *)
(***************************************************************************)
\* the output text from its first "{" to its last "}"
BraceSpan(text) == Slice(text, Find(text, "{"), RFind(text, "}") + 1)

\* text is pre \o obj \o post for a well-formed object obj
ObjectWithExtraText(text) ==
    \E a \in 1..Len(text), b \in 1..Len(text) :
        a <= b /\ JsonLoads_ok(SubSeq(text, a, b))

C6_AsStated ==
    (pc = "done" /\ ~ImportCalled /\ proc.kind = "ran"
        /\ ObjectWithExtraText(DecodeStdout(proc.out, fs.win32))) =>
        LET text == DecodeStdout(proc.out, fs.win32)
        IN  /\ JsonLoads_ok(BraceSpan(text))
            /\ ~ret.raised
            /\ ret.value = JsonLoads(BraceSpan(text))

(***************************************************************************)
(* C8: in every import summary failed_details, when present, has at most    *)
(* 10 entries and is the first min(10, failed) failure details in the order *)
(* the failures occurred; when all N calls raised, the summary has          *)
(* imported = 0, failed = N, success = false and min(N, 10) details.        *)
(***************************************************************************)
\* the detail string of the k-th call, a failure
FailureOf(k) ==
    IF CallRaised(k)
    THEN <<calls[k].id, ": Exception - ", CallOutcome(k).exc>>
    ELSE <<calls[k].id, ": ", Get(CallOutcome(k).value, "error", "Unknown error")>>

\* the failures of the calls made, in call order
FailuresInOrder ==
    LET failedCalls == SelectSeq([k \in 1..Len(calls) |-> k], LAMBDA k : ~CallSucceeded(k))
    IN  [j \in 1..Len(failedCalls) |-> FailureOf(failedCalls[j])]

C8_FailedDetailsCapped ==
    (ImportDone /\ ~ret.raised /\ IsSummary(ret.value)) =>
        LET v == ret.value
            fails == FailuresInOrder
            n == Len(achievement_ids)
        IN  /\ v.failed = Len(fails)
            /\ "failed_details" \in DOMAIN v <=> fails # <<>>
            /\ "failed_details" \in DOMAIN v =>
                  /\ Len(v.failed_details) <= MaxFailedDetails
                  /\ v.failed_details = SubSeq(fails, 1, Min(MaxFailedDetails, v.failed))
            /\ (\A k \in 1..Len(calls) : CallRaised(k)) =>
                  /\ v.imported = 0
                  /\ v.failed = n
                  /\ v.success = FALSE
                  /\ Len(v.failed_details) = Min(n, MaxFailedDetails)

\* an import of more than 10 identifiers whose calls all raised has returned
\* its summary, with 10 failure details
C8_Witness ==
    /\ ImportDone
    /\ Len(calls) > MaxFailedDetails
    /\ \A k \in 1..Len(calls) : CallRaised(k)
    /\ IsSummary(ret.value)
    /\ ret.value.failed = Len(calls)
    /\ Len(ret.value.failed_details) = MaxFailedDetails

(***************************************************************************)
(* C10: every attempted identifier is counted in exactly one of the two     *)
(* counters: imported is the number of calls that succeeded, failed the     *)
(* number of the others, imported + failed = total_attempted = the number   *)
(* of identifiers extracted, and success is true exactly when imported > 0. *)
(***************************************************************************)
C10_CountedOnce ==
    ImportCalled =>
        /\ imported_count = Cardinality({k \in 1..Len(calls) : CallSucceeded(k)})
        /\ failed_count = Cardinality({k \in 1..Len(calls) : ~CallSucceeded(k)})
        /\ (pc = "done" /\ ~ret.raised /\ IsSummary(ret.value)) =>
              /\ ret.value.imported = imported_count
              /\ ret.value.failed = failed_count
              /\ ret.value.imported + ret.value.failed = ret.value.total_attempted
              /\ ret.value.total_attempted = Len(achievement_ids)
              /\ ret.value.total_attempted = Len(BackupIds(achievements_list.v))
              /\ ret.value.success <=> ret.value.imported > 0

\* the import of two identifiers that both unlocked has returned
\* success = true, imported = 2, failed = 0, total_attempted = 2
C10_Witness ==
    /\ ImportDone
    /\ achievements_list.v = <<Str(<<"a">>), Str(<<" ", "b", " ">>)>>
    /\ ret.value = [success |-> TRUE, imported |-> 2, failed |-> 0, total_attempted |-> 2,
                    message |-> <<"Imported", 2>>]

(***************************************************************************)
(* C9: a failing log write changes nothing: with the log writes failing no  *)
(* call raises, Popen is called as it is when they succeed, and the         *)
(* counters and the result are those of the same call with every log write  *)
(* succeeding.                                                              *)
(***************************************************************************)
\* the environment with its log writes succeeding
LogsOk == [fs EXCEPT !.logOk = TRUE]

\* the direct call made, run against environment env
DirectOutcome(env) ==
    LET p == IF proc = NoProcess THEN [kind |-> "popen_error"] ELSE proc
        a == CHOOSE x \in AppIds : TRUE
        id == CHOOSE x \in DirectIds : TRUE
    IN  IF op = "get_player_achievements" THEN get_player_achievements(a, env, p)
        ELSE IF op = "unlock_achievement" THEN unlock_achievement(a, id, env, p)
        ELSE IF op = "lock_achievement" THEN lock_achievement(a, id, env, p)
        ELSE get_all_achievements_for_app(a, env, p)

RECURSIVE LoopAfter(_, _)
\* the loop's counters and Popen calls after the first k calls made, in env
LoopAfter(k, env) ==
    IF k = 0
    THEN [escaped |-> FALSE,
          st |-> [imported |-> 0, failed |-> 0, failed_list |-> <<>>],
          popen |-> <<>>]
    ELSE LET prev == LoopAfter(k - 1, env)
             u == UnlockOutcome(calls[k].b, appid, calls[k].id, env)
             item == ImportItem(prev.st, calls[k].id, u, env)
         IN  [escaped |-> prev.escaped \/ item.escaped,
              st |-> item.st,
              popen |-> prev.popen \o u.popen]

====
